---- MODULE Spec2Model ----
(***************************************************************************)
(* A model of src/repl/handler.rs of aichat: the REPL command dispatcher   *)
(* (ReplCmdHandler) and the stream relay (ReplyStreamHandler).             *)
(*                                                                         *)
(* RelaySpec drives one ReplyStreamHandler instance through arbitrary      *)
(* text()/done()/get_buffer()/get_abort() calls, with a consumer on the    *)
(* other end of the channel and an external thread that sets and clears    *)
(* the abort signal.  Spec drives ReplCmdHandler::handle through its       *)
(* commands, one step per statement; FairSpec adds the progress of the     *)
(* dispatcher thread and of the streaming exchange.                        *)
(***************************************************************************)
EXTENDS Integers, Sequences, FiniteSets, TLC

\* ------------------------------------------------------------------ bounds
\* The number of text()/done() calls made on one relay instance.
MaxCalls == 3

\* ------------------------------------------------------------- text values
\* A string is a sequence of characters; NL is the newline character.
NL == "NL"
DoubleNewline == <<NL, NL>>
\* The fragments a producer passes to text(): "", "\n", "\n\n", "a".
Fragments == {<<>>, <<NL>>, DoubleNewline, <<"a">>}

\* ReplyStreamEvent (handler.rs 202-205).
TextEvent(f) == [kind |-> "Text", text |-> f]
DoneEvent == [kind |-> "Done", text |-> <<>>]

VARIABLES
    \* ---- ReplyStreamHandler and its channel
    buffer,     \* ReplyStreamHandler.buffer
    abort,      \* the shared abort signal (SharedAbortSignal)
    rxAlive,    \* the channel's receiving end has not been dropped
    chan,       \* events sent on the channel and not yet received
    received,   \* events the consumer has received, in order
    rpc,        \* where the producer is inside a relay call
    sendRet,    \* the result of the send the current call performed, if any
    lastRet,    \* what the last completed text()/done() call returned
    lastOp,     \* the last completed call: "text" or "done"
    gotBuffer,  \* what the last get_buffer() returned
    \* ---- history of the relay instance
    calls,      \* every text()/done() call begun, in call order
    attempts,   \* every channel send performed, with its result
    abortRead,  \* the value safe_ret read from the abort signal
    abortAtSend,\* the value of the abort signal when the last send was made
    \* ---- ReplCmdHandler::handle
    dpc,        \* where the dispatcher is inside handle ("idle": not in it)
    cmd,        \* the command of the outermost handle call
    input,      \* Submit's input
    stack,      \* return positions of the enclosing handle calls
    sub,        \* what the nested handle call returned
    result,     \* what the outermost handle call returned
    ret,        \* handle's local ret: what render_stream returned
    reply,      \* handle's local buffer (Submit) or reply (Copy)
    wgCount,    \* live handles of the WaitGroup of this Submit
    \* ---- the shared configuration and its lock
    readGuards, \* read guards the dispatcher holds
    writeGuard, \* the dispatcher holds the write guard
    autoCopy,   \* Config.auto_copy
    lastMessage,\* Config.last_message: <<>> (None) or <<(input, reply)>>
    \* ---- the clipboard
    clipOk,     \* ReplCmdHandler.clipboard is Ok
    clipText,   \* the text on the clipboard
    \* ---- the streaming exchange started by render_stream
    xpc,        \* "none", "running", "ended" (barrier held), "released"
    xret,       \* the outcome of the exchange
    \* ---- history of the outermost handle call
    effects,    \* the collaborator operations it performed, in order
    \* ---- the rest of the configuration, and the handler's construction
    role,       \* Config.role: <<>> (None) or <<name>>
    session,    \* Config.session: <<>> (None) or <<name>>
    model,      \* the model the configuration has selected
    initRet     \* what ReplCmdHandler::init returned

relayVars == <<buffer, rxAlive, chan, received, rpc, sendRet, lastRet,
               lastOp, gotBuffer, calls, attempts, abortRead, abortAtSend>>

restVars == <<role, session, model, initRet>>

dispVars == <<dpc, cmd, input, stack, sub, result, ret, reply, wgCount,
              readGuards, writeGuard, autoCopy, lastMessage, clipOk, clipText,
              xpc, xret, effects, restVars>>

vars == <<relayVars, abort, dispVars>>

\* ------------------------------------------------------------ the channel
\* Sender::send on an unbounded channel (handler.rs 169-171, 178-180): it
\* queues the event behind those already sent, and fails exactly when the
\* receiving end has been dropped.
SendOk == rxAlive
\* Variant: the event jumps the queue.
SendInFront(ev) == IF SendOk THEN <<ev>> \o chan ELSE chan
Send(ev) == IF SendOk THEN Append(chan, ev) ELSE chan
SendResult == IF SendOk THEN "ok" ELSE "err"

\* ReplyStreamHandler::safe_ret (handler.rs 194-199): a failed send is
\* reported as success when the abort signal is set.
\* Variant: `||` in place of `&&`.
safe_ret_any_abort(r, aborted) == IF r = "err" \/ aborted THEN "ok" ELSE r
safe_ret(r, aborted) == IF r = "err" /\ aborted THEN "ok" ELSE r

\* ReplyStreamHandler::new (handler.rs 156-162).
NewRelay ==
    /\ buffer = <<>>
    /\ rxAlive = TRUE
    /\ chan = <<>>
    /\ received = <<>>
    /\ rpc = "idle"
    /\ sendRet = "none"
    /\ lastRet = "none"
    /\ lastOp = "none"
    /\ gotBuffer = <<>>
    /\ calls = <<>>
    /\ attempts = <<>>
    /\ abortRead = FALSE
    /\ abortAtSend = FALSE

\* The leading-double-newline test of text() (handler.rs 165).
\* Variant: without the buffer test.
SuppressedIgnoringBuffer(buf, f) == f = DoubleNewline
Suppressed(buf, f) == buf = <<>> /\ f = DoubleNewline

\* self.buffer.push_str(text) (handler.rs 168).
\* Variant: assignment in place of push_str.
push_str_overwrite(buf, f) == f
\* Variant: the fragment is put in front.
push_str_front(buf, f) == f \o buf
push_str(buf, f) == buf \o f

\* ReplyStreamHandler::text up to and including the send (handler.rs
\* 164-172).  A suppressed fragment returns Ok at once.
Text(f) ==
    /\ rpc = "idle"
    /\ Len(calls) < MaxCalls
    /\ calls' = Append(calls, [op |-> "text", frag |-> f])
    /\ IF Suppressed(buffer, f)
       THEN /\ lastRet' = "ok"
            /\ lastOp' = "text"
            /\ sendRet' = "none"
            /\ UNCHANGED <<buffer, chan, rpc, attempts, abortAtSend>>
       ELSE /\ buffer' = push_str(buffer, f)
            /\ chan' = Send(TextEvent(f))
            /\ sendRet' = SendResult
            /\ attempts' = Append(attempts, [ev |-> TextEvent(f), ret |-> SendResult])
            /\ abortAtSend' = abort
            /\ rpc' = "text_ret"
            /\ UNCHANGED <<lastRet, lastOp>>
    /\ UNCHANGED <<abort, rxAlive, received, gotBuffer, abortRead>>
    /\ UNCHANGED dispVars

\* ReplyStreamHandler::done up to and including the send (handler.rs
\* 177-181).
Done ==
    /\ rpc = "idle"
    /\ Len(calls) < MaxCalls
    /\ calls' = Append(calls, [op |-> "done", frag |-> <<>>])
    /\ chan' = Send(DoneEvent)
    /\ sendRet' = SendResult
    /\ attempts' = Append(attempts, [ev |-> DoneEvent, ret |-> SendResult])
    /\ abortAtSend' = abort
    /\ rpc' = "done_ret"
    /\ UNCHANGED <<buffer, abort, rxAlive, received, lastRet, lastOp,
                   gotBuffer, abortRead>>
    /\ UNCHANGED dispVars

\* The end of text() and done(): self.safe_ret(ret)?; Ok(()) (handler.rs
\* 173-174, 182-183, 194-199).  The abort signal is read here, after the
\* send.
\* Variant: the signal is sampled before the send.
aborted_before_send == abortAtSend
\* self.abort.aborted() (handler.rs 195).
aborted == abort

SafeRet ==
    /\ rpc \in {"text_ret", "done_ret"}
    /\ abortRead' = aborted
    /\ lastRet' = safe_ret(sendRet, aborted)
    /\ lastOp' = IF rpc = "text_ret" THEN "text" ELSE "done"
    /\ rpc' = "idle"
    /\ UNCHANGED <<buffer, abort, rxAlive, chan, received, sendRet,
                   gotBuffer, calls, attempts, abortAtSend>>
    /\ UNCHANGED dispVars

\* ReplyStreamHandler::get_buffer (handler.rs 186-188).
get_buffer == buffer

GetBuffer ==
    /\ rpc = "idle"
    /\ gotBuffer' = get_buffer
    /\ UNCHANGED <<buffer, abort, rxAlive, chan, received, rpc, sendRet,
                   lastRet, lastOp, calls, attempts, abortRead, abortAtSend>>
    /\ UNCHANGED dispVars

\* ReplyStreamHandler::get_abort (handler.rs 190-192): another handle to
\* the same signal; nothing of the relay changes.
get_abort == abort

GetAbort ==
    /\ rpc = "idle"
    /\ UNCHANGED <<relayVars, abort, dispVars>>

\* The consumer takes the oldest event off the channel.
Recv ==
    /\ rxAlive
    /\ chan # <<>>
    /\ received' = Append(received, Head(chan))
    /\ chan' = Tail(chan)
    /\ UNCHANGED <<buffer, abort, rxAlive, rpc, sendRet, lastRet, lastOp,
                   gotBuffer, calls, attempts, abortRead, abortAtSend>>
    /\ UNCHANGED dispVars

\* The consumer drops its end of the channel; later sends fail.
DropReceiver ==
    /\ rxAlive
    /\ rxAlive' = FALSE
    /\ UNCHANGED <<buffer, abort, chan, received, rpc, sendRet, lastRet,
                   lastOp, gotBuffer, calls, attempts, abortRead, abortAtSend>>
    /\ UNCHANGED dispVars

\* The key-handling thread sets the abort signal.
SetAbort ==
    /\ ~abort
    /\ abort' = TRUE
    /\ UNCHANGED <<relayVars, dispVars>>

\* The key-handling thread clears the abort signal.
ResetAbort ==
    /\ abort
    /\ abort' = FALSE
    /\ UNCHANGED <<relayVars, dispVars>>

\* ------------------------------------------------------- the dispatcher
\* Submit payloads and file contents: "" and "q".
Inputs == {<<>>, <<"q">>}
\* Reply texts an exchange can return: "" and "a".
Replies == {<<>>, <<"a">>}
\* Arguments of Set that the configuration accepts or rejects.
SetArgs == {"auto_copy true", "auto_copy false", "bogus"}

\* ReplCmd (handler.rs 16-29).
Submit(i) == [kind |-> "Submit", arg |-> i]
CopyCmd == [kind |-> "Copy", arg |-> <<>>]
SetCmd(a) == [kind |-> "Set", arg |-> a]
ReadFile(f) == [kind |-> "ReadFile", arg |-> f]
InfoCmd == [kind |-> "Info", arg |-> <<>>]
RoleInfoCmd == [kind |-> "RoleInfo", arg |-> <<>>]
SessionInfoCmd == [kind |-> "SessionInfo", arg |-> <<>>]
SetModel(n) == [kind |-> "SetModel", arg |-> n]
SetRole(n) == [kind |-> "SetRole", arg |-> n]
ExitRoleCmd == [kind |-> "ExitRole", arg |-> <<>>]
StartSession(n) == [kind |-> "StartSession", arg |-> n]
ExitSessionCmd == [kind |-> "ExitSession", arg |-> <<>>]
NoCmd == [kind |-> "none", arg |-> <<>>]
Commands ==
    {Submit(i) : i \in Inputs} \cup {CopyCmd} \cup {SetCmd(a) : a \in SetArgs}
        \cup {ReadFile("file")}
        \cup {InfoCmd, RoleInfoCmd, SessionInfoCmd, SetModel("m1"),
              SetRole("r"), ExitRoleCmd, StartSession("s"), ExitSessionCmd}

\* Result<()> and Result<String>: Ok, or an error with the context handle
\* attached ("" when none) and the failure underneath.
NoResult == [st |-> "none", ctx |-> "", cause |-> "", val |-> <<>>]
Ok == [st |-> "ok", ctx |-> "", cause |-> "", val |-> <<>>]
OkVal(v) == [st |-> "ok", ctx |-> "", cause |-> "", val |-> v]
Err(cause) == [st |-> "err", ctx |-> "", cause |-> cause, val |-> <<>>]
\* The ? operator on a failed collaborator call: handle returns the
\* failure (handler.rs 55 and the like).
\* Variant: the failure is dropped, as by let _ =.
QuestionMarkDropped(cause) == Ok
QuestionMark(cause) == Err(cause)

\* Context::with_context on a Result.
\* Variant: the context is left out.
without_context(r, ctx) == r
with_context(r, ctx) == IF r.st = "err" THEN [r EXCEPT !.ctx = ctx] ELSE r

\* One collaborator operation handle performed, and whether it succeeded.
Effect(op, arg, ok) == [op |-> op, arg |-> arg, ok |-> ok]

\* What ReplCmdHandler::init returns given whether Clipboard::new()
\* succeeded (handler.rs 38-45): Ok(Self { .. }) either way.
\* Variant: Clipboard::new()? in init.
init_propagating(clipboardOk) == IF clipboardOk THEN Ok ELSE Err("clipboard")
init(clipboardOk) == Ok

\* ReplCmdHandler::init (handler.rs 38-45), on a configuration that has
\* stored no message and has no role and no session: Clipboard::new() may
\* fail, and the failure is kept.
NewDispatcher ==
    /\ dpc = "idle"
    /\ cmd = NoCmd
    /\ input = <<>>
    /\ stack = <<>>
    /\ sub = NoResult
    /\ result = NoResult
    /\ ret = NoResult
    /\ reply = <<>>
    /\ wgCount = 0
    /\ readGuards = 0
    /\ writeGuard = FALSE
    /\ autoCopy \in BOOLEAN
    /\ lastMessage = <<>>
    /\ clipOk \in BOOLEAN
    /\ clipText = <<>>
    /\ xpc = "none"
    /\ xret = NoResult
    /\ effects = <<>>
    /\ role = <<>>
    /\ session = <<>>
    /\ model = "m0"
    /\ initRet = init(clipOk)

\* RwLock::read and RwLock::write on the shared configuration, and the
\* drop of the guard (handler.rs 53, 66, 67, 112, 118).
CanRead == ~writeGuard
CanWrite == ~writeGuard /\ readGuards = 0
\* The drop of a temporary read guard at the end of its statement.
\* Variant: the guard is bound to a name and outlives the statement.
KeepRead(n) == n
ReleaseRead(n) == n - 1
\* The drop of the write guard at the end of its statement.
\* Variant: the guard is leaked.
KeepWrite == TRUE
ReleaseWrite == FALSE

\* A handle call returns r (handler.rs 51, 135 and every `?`): to the
\* caller of the outermost call, or to the ReadFile arm that made the
\* nested call.  The WaitGroup of the call is dropped with its frame.
Return(r) ==
    /\ IF stack = <<>>
       THEN /\ dpc' = "idle"
            /\ result' = r
            /\ UNCHANGED <<stack, sub>>
       ELSE /\ dpc' = Head(stack)
            /\ stack' = Tail(stack)
            /\ sub' = r
            /\ UNCHANGED result

\* The first position of each arm of the match (handler.rs 48).
Arm(c) ==
    CASE c.kind = "Submit" -> "submit"
      [] c.kind = "Copy" -> "copy_lock"
      [] c.kind = "Set" -> "set_lock"
      [] c.kind = "ReadFile" -> "open"
      [] c.kind = "Info" -> "info_lock"
      [] c.kind = "RoleInfo" -> "role_info_lock"
      [] c.kind = "SessionInfo" -> "session_info_lock"
      [] c.kind = "SetModel" -> "set_model_lock"
      [] c.kind = "SetRole" -> "set_role_lock"
      [] c.kind = "ExitRole" -> "exit_role_lock"
      [] c.kind = "StartSession" -> "start_session_lock"
      [] c.kind = "ExitSession" -> "exit_session_lock"

\* The REPL calls handle(c) (handler.rs 47-48).
Handle(c) ==
    /\ dpc = "idle"
    /\ initRet.st = "ok"
    /\ cmd' = c
    /\ dpc' = Arm(c)
    /\ input' = IF c.kind = "Submit" THEN c.arg ELSE <<>>
    /\ result' = NoResult
    /\ sub' = NoResult
    /\ ret' = NoResult
    /\ reply' = <<>>
    /\ effects' = <<>>
    /\ UNCHANGED <<stack, wgCount, readGuards, writeGuard, autoCopy,
                   lastMessage, clipOk, clipText, xpc, xret>>
    /\ UNCHANGED <<relayVars, abort>>
    /\ UNCHANGED restVars

\* Submit(""): return Ok(()) (handler.rs 50-52).
\* Variant: without the early return.
is_empty_never(i) == FALSE
is_empty(i) == i = <<>>
SubmitEmpty ==
    /\ dpc = "submit"
    /\ is_empty(input)
    /\ Return(Ok)
    /\ UNCHANGED <<cmd, input, ret, reply, wgCount, readGuards, writeGuard,
                   autoCopy, lastMessage, clipOk, clipText, xpc, xret, effects>>
    /\ UNCHANGED <<relayVars, abort>>
    /\ UNCHANGED restVars

\* self.config.read() of the token notification (handler.rs 53).
SubmitReadLock ==
    /\ dpc = "submit"
    /\ ~is_empty(input)
    /\ CanRead
    /\ readGuards' = readGuards + 1
    /\ dpc' = "tokens"
    /\ UNCHANGED <<cmd, input, stack, sub, result, ret, reply, wgCount,
                   writeGuard, autoCopy, lastMessage, clipOk, clipText, xpc,
                   xret, effects>>
    /\ UNCHANGED <<relayVars, abort>>
    /\ UNCHANGED restVars

\* maybe_print_send_tokens(&input); the guard is dropped at the end of the
\* statement; then WaitGroup::new() (handler.rs 53-54).
SubmitTokens ==
    /\ dpc = "tokens"
    /\ effects' = Append(effects, Effect("maybe_print_send_tokens", <<input>>, TRUE))
    /\ readGuards' = ReleaseRead(readGuards)
    /\ wgCount' = 1
    /\ dpc' = "init_client"
    /\ UNCHANGED <<cmd, input, stack, sub, result, ret, reply, writeGuard,
                   autoCopy, lastMessage, clipOk, clipText, xpc, xret>>
    /\ UNCHANGED <<relayVars, abort>>
    /\ UNCHANGED restVars

\* init_client(self.config.clone())? (handler.rs 55).
InitClient(ok) ==
    /\ dpc = "init_client"
    /\ effects' = Append(effects, Effect("init_client", <<>>, ok))
    /\ IF ok
       THEN /\ dpc' = "render_stream"
            /\ UNCHANGED <<stack, sub, result, wgCount>>
       ELSE /\ Return(QuestionMark("init_client"))
            /\ wgCount' = 0
    /\ UNCHANGED <<cmd, input, ret, reply, readGuards, writeGuard, autoCopy,
                   lastMessage, clipOk, clipText, xpc, xret>>
    /\ UNCHANGED <<relayVars, abort>>
    /\ UNCHANGED restVars

\* The call of render_stream with wg.clone() (handler.rs 56-63): the
\* exchange starts and holds a handle of the WaitGroup.
RenderStreamCall ==
    /\ dpc = "render_stream"
    /\ effects' = Append(effects, Effect("render_stream", <<input>>, TRUE))
    /\ wgCount' = wgCount + 1
    /\ xpc' = "running"
    /\ xret' = NoResult
    /\ dpc' = "in_render_stream"
    /\ UNCHANGED <<cmd, input, stack, sub, result, ret, reply, readGuards,
                   writeGuard, autoCopy, lastMessage, clipOk, clipText>>
    /\ UNCHANGED <<relayVars, abort>>
    /\ UNCHANGED restVars

\* Production ends normally: the exchange has the full reply.
ExchangeCompletes(r) ==
    /\ xpc = "running"
    /\ xret' = OkVal(r)
    /\ xpc' = "ended"
    /\ UNCHANGED <<dpc, cmd, input, stack, sub, result, ret, reply, wgCount,
                   readGuards, writeGuard, autoCopy, lastMessage, clipOk,
                   clipText, effects>>
    /\ UNCHANGED <<relayVars, abort>>
    /\ UNCHANGED restVars

\* Production ends with an error.
ExchangeFails ==
    /\ xpc = "running"
    /\ xret' = Err("render_stream")
    /\ xpc' = "ended"
    /\ UNCHANGED <<dpc, cmd, input, stack, sub, result, ret, reply, wgCount,
                   readGuards, writeGuard, autoCopy, lastMessage, clipOk,
                   clipText, effects>>
    /\ UNCHANGED <<relayVars, abort>>
    /\ UNCHANGED restVars

\* Production ends because the abort signal is set: the exchange has the
\* reply accumulated so far.
ExchangeCancelled(r) ==
    /\ xpc = "running"
    /\ abort
    /\ xret' = OkVal(r)
    /\ xpc' = "ended"
    /\ UNCHANGED <<dpc, cmd, input, stack, sub, result, ret, reply, wgCount,
                   readGuards, writeGuard, autoCopy, lastMessage, clipOk,
                   clipText, effects>>
    /\ UNCHANGED <<relayVars, abort>>
    /\ UNCHANGED restVars

\* The exchange drops its handle of the WaitGroup once production has
\* ended, whatever the outcome.
ReleaseBarrier ==
    /\ xpc = "ended"
    /\ wgCount' = wgCount - 1
    /\ xpc' = "released"
    /\ UNCHANGED <<dpc, cmd, input, stack, sub, result, ret, reply,
                   readGuards, writeGuard, autoCopy, lastMessage, clipOk,
                   clipText, xret, effects>>
    /\ UNCHANGED <<relayVars, abort>>
    /\ UNCHANGED restVars

\* render_stream returns its outcome into ret (handler.rs 56).
RenderStreamReturns ==
    /\ dpc = "in_render_stream"
    /\ xpc \in {"ended", "released"}
    /\ ret' = xret
    /\ dpc' = "wait"
    /\ UNCHANGED <<cmd, input, stack, sub, result, reply, wgCount,
                   readGuards, writeGuard, autoCopy, lastMessage, clipOk,
                   clipText, xpc, xret, effects>>
    /\ UNCHANGED <<relayVars, abort>>
    /\ UNCHANGED restVars

\* wg.wait() (handler.rs 64) gives up the dispatcher's own handle and
\* blocks until every other handle has been dropped.
\* Variant: waiting on a clone, the own handle still alive.
WaitOverHoldingOwn == wgCount = 0
WaitOver == wgCount - 1 = 0

Wait ==
    /\ dpc = "wait"
    /\ WaitOver
    /\ wgCount' = 0
    /\ effects' = Append(effects, Effect("wait", <<>>, TRUE))
    /\ dpc' = "ret"
    /\ UNCHANGED <<cmd, input, stack, sub, result, ret, reply, readGuards,
                   writeGuard, autoCopy, lastMessage, clipOk, clipText, xpc,
                   xret>>
    /\ UNCHANGED <<relayVars, abort>>
    /\ UNCHANGED restVars

\* let buffer = ret?; (handler.rs 65).
\* Variant: without the `?`.
PropagatesNothing(r) == FALSE
Propagates(r) == r.st = "err"

TakeRet ==
    /\ dpc = "ret"
    /\ IF Propagates(ret)
       THEN /\ Return([ret EXCEPT !.val = <<>>])
            /\ UNCHANGED reply
       ELSE /\ reply' = ret.val
            /\ dpc' = "save_lock"
            /\ UNCHANGED <<stack, sub, result>>
    /\ UNCHANGED <<cmd, input, ret, wgCount, readGuards, writeGuard, autoCopy,
                   lastMessage, clipOk, clipText, xpc, xret, effects>>
    /\ UNCHANGED <<relayVars, abort>>
    /\ UNCHANGED restVars

\* self.config.write() of save_message (handler.rs 66).
SaveLock ==
    /\ dpc = "save_lock"
    /\ CanWrite
    /\ writeGuard' = TRUE
    /\ dpc' = "save_message"
    /\ UNCHANGED <<cmd, input, stack, sub, result, ret, reply, wgCount,
                   readGuards, autoCopy, lastMessage, clipOk, clipText, xpc,
                   xret, effects>>
    /\ UNCHANGED <<relayVars, abort>>
    /\ UNCHANGED restVars

\* save_message(&input, &buffer)? and the drop of the write guard
\* (handler.rs 66).  On success the configuration's last message is the
\* pair.
SaveMessage(ok) ==
    /\ dpc = "save_message"
    /\ effects' = Append(effects, Effect("save_message", <<input, reply>>, ok))
    /\ writeGuard' = ReleaseWrite
    /\ IF ok
       THEN /\ lastMessage' = <<<<input, reply>>>>
            /\ dpc' = "auto_copy_lock"
            /\ UNCHANGED <<stack, sub, result>>
       ELSE /\ Return(QuestionMark("save_message"))
            /\ UNCHANGED lastMessage
    /\ UNCHANGED <<cmd, input, ret, reply, wgCount, readGuards, autoCopy,
                   clipOk, clipText, xpc, xret>>
    /\ UNCHANGED <<relayVars, abort>>
    /\ UNCHANGED restVars

\* self.config.read() of the auto_copy test (handler.rs 67).
AutoCopyLock ==
    /\ dpc = "auto_copy_lock"
    /\ CanRead
    /\ readGuards' = readGuards + 1
    /\ dpc' = "auto_copy"
    /\ UNCHANGED <<cmd, input, stack, sub, result, ret, reply, wgCount,
                   writeGuard, autoCopy, lastMessage, clipOk, clipText, xpc,
                   xret, effects>>
    /\ UNCHANGED <<relayVars, abort>>
    /\ UNCHANGED restVars

\* if self.config.read().auto_copy (handler.rs 67): the guard is dropped
\* when the condition has been evaluated.
AutoCopyTest ==
    /\ dpc = "auto_copy"
    /\ readGuards' = ReleaseRead(readGuards)
    /\ IF autoCopy
       THEN /\ dpc' = "auto_copy_copy"
            /\ UNCHANGED <<stack, sub, result>>
       ELSE Return(Ok)
    /\ UNCHANGED <<cmd, input, ret, reply, wgCount, writeGuard, autoCopy,
                   lastMessage, clipOk, clipText, xpc, xret, effects>>
    /\ UNCHANGED <<relayVars, abort>>
    /\ UNCHANGED restVars

\* ReplCmdHandler::copy (handler.rs 138-146): with a failed binding it
\* returns the stored failure; otherwise the result of set_text.
copy(setOk) ==
    IF ~clipOk THEN Err("clipboard")
    ELSE IF setOk THEN Ok ELSE Err("set_text")
CopyEffects(text, setOk) ==
    <<Effect("copy", <<text>>, copy(setOk).st = "ok")>>
        \o (IF clipOk THEN <<Effect("set_text", <<text>>, setOk)>> ELSE <<>>)

\* let _ = self.copy(&buffer); (handler.rs 68): the result is discarded.
\* Variant: `?` in place of `let _ =`.
KeepError(r) == r
Discard(r) == Ok

AutoCopy(setOk) ==
    /\ dpc = "auto_copy_copy"
    /\ effects' = effects \o CopyEffects(reply, setOk)
    /\ clipText' = IF copy(setOk).st = "ok" THEN reply ELSE clipText
    /\ Return(Discard(copy(setOk)))
    /\ UNCHANGED <<cmd, input, ret, reply, wgCount, readGuards, writeGuard,
                   autoCopy, lastMessage, clipOk, xpc, xret>>
    /\ UNCHANGED <<relayVars, abort>>
    /\ UNCHANGED restVars

\* Copy: self.config.read() (handler.rs 116-118).
CopyLock ==
    /\ dpc = "copy_lock"
    /\ CanRead
    /\ readGuards' = readGuards + 1
    /\ dpc' = "copy_read"
    /\ UNCHANGED <<cmd, input, stack, sub, result, ret, reply, wgCount,
                   writeGuard, autoCopy, lastMessage, clipOk, clipText, xpc,
                   xret, effects>>
    /\ UNCHANGED <<relayVars, abort>>
    /\ UNCHANGED restVars

\* last_message.as_ref().map(|v| v.1.clone()).unwrap_or_default()
\* (handler.rs 119-122); the guard is dropped at the end of the let.
\* Variant: v.0, the input, in place of v.1.
LastInputAsReply == IF lastMessage = <<>> THEN <<>> ELSE lastMessage[1][1]
LastReply == IF lastMessage = <<>> THEN <<>> ELSE lastMessage[1][2]

CopyRead ==
    /\ dpc = "copy_read"
    /\ reply' = LastReply
    /\ readGuards' = ReleaseRead(readGuards)
    /\ dpc' = "copy_copy"
    /\ UNCHANGED <<cmd, input, stack, sub, result, ret, wgCount, writeGuard,
                   autoCopy, lastMessage, clipOk, clipText, xpc, xret,
                   effects>>
    /\ UNCHANGED <<relayVars, abort>>
    /\ UNCHANGED restVars

\* self.copy(&reply).with_context(..)? (handler.rs 123-125).
CopyCopy(setOk) ==
    /\ dpc = "copy_copy"
    /\ effects' = effects \o CopyEffects(reply, setOk)
    /\ clipText' = IF copy(setOk).st = "ok" THEN reply ELSE clipText
    /\ Return(with_context(copy(setOk), "Failed to copy the last output"))
    /\ UNCHANGED <<cmd, input, ret, reply, wgCount, readGuards, writeGuard,
                   autoCopy, lastMessage, clipOk, xpc, xret>>
    /\ UNCHANGED <<relayVars, abort>>
    /\ UNCHANGED restVars

\* Set: self.config.write() (handler.rs 112).
SetLock ==
    /\ dpc = "set_lock"
    /\ CanWrite
    /\ writeGuard' = TRUE
    /\ dpc' = "update"
    /\ UNCHANGED <<cmd, input, stack, sub, result, ret, reply, wgCount,
                   readGuards, autoCopy, lastMessage, clipOk, clipText, xpc,
                   xret, effects>>
    /\ UNCHANGED <<relayVars, abort>>
    /\ UNCHANGED restVars

\* update(&input)? and the drop of the write guard (handler.rs 112-113).
\* The configuration rejects what it cannot parse.
Update ==
    /\ dpc = "update"
    /\ effects' = Append(effects, Effect("update", <<cmd.arg>>, cmd.arg # "bogus"))
    /\ writeGuard' = ReleaseWrite
    /\ IF cmd.arg = "bogus"
       THEN /\ Return(QuestionMark("update"))
            /\ UNCHANGED autoCopy
       ELSE /\ autoCopy' = (cmd.arg = "auto_copy true")
            /\ Return(Ok)
    /\ UNCHANGED <<cmd, input, ret, reply, wgCount, readGuards, lastMessage,
                   clipOk, clipText, xpc, xret>>
    /\ UNCHANGED <<relayVars, abort>>
    /\ UNCHANGED restVars

\* ReadFile: fs::File::open(file).with_context(..)? (handler.rs 128-129).
Open(ok) ==
    /\ dpc = "open"
    /\ effects' = Append(effects, Effect("open", <<cmd.arg>>, ok))
    /\ IF ok
       THEN /\ dpc' = "read_to_string"
            /\ UNCHANGED <<stack, sub, result>>
       ELSE Return(with_context(QuestionMark("open"), "Unable to open file"))
    /\ UNCHANGED <<cmd, input, ret, reply, wgCount, readGuards, writeGuard,
                   autoCopy, lastMessage, clipOk, clipText, xpc, xret>>
    /\ UNCHANGED <<relayVars, abort>>
    /\ UNCHANGED restVars

\* file.read_to_string(&mut contents).with_context(..)? and, when it
\* succeeds, the nested call self.handle(ReplCmd::Submit(contents))
\* (handler.rs 130-132).
ReadToString(ok, contents) ==
    /\ dpc = "read_to_string"
    /\ effects' =
          IF ok
          THEN effects \o <<Effect("read_to_string", <<contents>>, TRUE),
                            Effect("handle_submit", <<contents>>, TRUE)>>
          ELSE Append(effects, Effect("read_to_string", <<>>, FALSE))
    /\ IF ok
       THEN /\ input' = contents
            /\ stack' = <<"nested_ret">> \o stack
            /\ dpc' = Arm(Submit(contents))
            /\ UNCHANGED <<sub, result>>
       ELSE /\ Return(with_context(QuestionMark("read_to_string"), "Unable to read file"))
            /\ UNCHANGED input
    /\ UNCHANGED <<cmd, ret, reply, wgCount, readGuards, writeGuard,
                   autoCopy, lastMessage, clipOk, clipText, xpc, xret>>
    /\ UNCHANGED <<relayVars, abort>>
    /\ UNCHANGED restVars

\* The `?` on the nested call's result, then Ok(()) (handler.rs 132-135).
\* Variant: the nested call's result is dropped.
IgnoreThenOk(r) == Ok
QuestionThenOk(r) == IF r.st = "err" THEN r ELSE Ok

NestedRet ==
    /\ dpc = "nested_ret"
    /\ Return(QuestionThenOk(sub))
    /\ UNCHANGED <<cmd, input, ret, reply, wgCount, readGuards, writeGuard,
                   autoCopy, lastMessage, clipOk, clipText, xpc, xret,
                   effects>>
    /\ UNCHANGED <<relayVars, abort>>
    /\ UNCHANGED restVars

\* Info: self.config.read() (handler.rs 72).
InfoLock ==
    /\ dpc = "info_lock"
    /\ CanRead
    /\ readGuards' = readGuards + 1
    /\ dpc' = "info"
    /\ UNCHANGED <<cmd, input, stack, sub, result, ret, reply, wgCount,
                   writeGuard, autoCopy, lastMessage, clipOk, clipText, xpc,
                   xret, effects>>
    /\ UNCHANGED <<relayVars, abort>>
    /\ UNCHANGED <<role, session, model, initRet>>

\* info()? and the drop of the guard (handler.rs 72-73).
InfoCall(ok) ==
    /\ dpc = "info"
    /\ effects' = Append(effects, Effect("info", <<>>, ok))
    /\ readGuards' = ReleaseRead(readGuards)
    /\ Return(IF ok THEN Ok ELSE QuestionMark("info"))
    /\ UNCHANGED <<cmd, input, ret, reply, wgCount, writeGuard, autoCopy,
                   lastMessage, clipOk, clipText, xpc, xret>>
    /\ UNCHANGED <<relayVars, abort>>
    /\ UNCHANGED <<role, session, model, initRet>>

\* SetModel: self.config.write() (handler.rs 76).
SetModelLock ==
    /\ dpc = "set_model_lock"
    /\ CanWrite
    /\ writeGuard' = TRUE
    /\ dpc' = "set_model"
    /\ UNCHANGED <<cmd, input, stack, sub, result, ret, reply, wgCount,
                   readGuards, autoCopy, lastMessage, clipOk, clipText, xpc,
                   xret, effects>>
    /\ UNCHANGED <<relayVars, abort>>
    /\ UNCHANGED <<role, session, model, initRet>>

\* set_model(&name)? and the drop of the guard (handler.rs 76-77).
SetModelCall(ok) ==
    /\ dpc = "set_model"
    /\ effects' = Append(effects, Effect("set_model", <<cmd.arg>>, ok))
    /\ writeGuard' = ReleaseWrite
    /\ model' = IF ok THEN cmd.arg ELSE model
    /\ Return(IF ok THEN Ok ELSE QuestionMark("set_model"))
    /\ UNCHANGED <<cmd, input, ret, reply, wgCount, readGuards, autoCopy,
                   lastMessage, clipOk, clipText, xpc, xret>>
    /\ UNCHANGED <<relayVars, abort>>
    /\ UNCHANGED <<role, session, initRet>>

\* SetRole: self.config.write() (handler.rs 80).
SetRoleLock ==
    /\ dpc = "set_role_lock"
    /\ CanWrite
    /\ writeGuard' = TRUE
    /\ dpc' = "set_role"
    /\ UNCHANGED <<cmd, input, stack, sub, result, ret, reply, wgCount,
                   readGuards, autoCopy, lastMessage, clipOk, clipText, xpc,
                   xret, effects>>
    /\ UNCHANGED <<relayVars, abort>>
    /\ UNCHANGED <<role, session, model, initRet>>

\* set_role(&name)? and the drop of the guard (handler.rs 80-81).
SetRoleCall(ok) ==
    /\ dpc = "set_role"
    /\ effects' = Append(effects, Effect("set_role", <<cmd.arg>>, ok))
    /\ writeGuard' = ReleaseWrite
    /\ role' = IF ok THEN <<cmd.arg>> ELSE role
    /\ Return(IF ok THEN Ok ELSE QuestionMark("set_role"))
    /\ UNCHANGED <<cmd, input, ret, reply, wgCount, readGuards, autoCopy,
                   lastMessage, clipOk, clipText, xpc, xret>>
    /\ UNCHANGED <<relayVars, abort>>
    /\ UNCHANGED <<session, model, initRet>>

\* RoleInfo: self.config.read() in the scrutinee of the if let (handler.rs
\* 84); the guard lives to the end of the if let.
RoleInfoLock ==
    /\ dpc = "role_info_lock"
    /\ CanRead
    /\ readGuards' = readGuards + 1
    /\ dpc' = "role_info"
    /\ UNCHANGED <<cmd, input, stack, sub, result, ret, reply, wgCount,
                   writeGuard, autoCopy, lastMessage, clipOk, clipText, xpc,
                   xret, effects>>
    /\ UNCHANGED <<relayVars, abort>>
    /\ UNCHANGED <<role, session, model, initRet>>

\* role.info()? on the active role, then the drop of the guard (handler.rs
\* 84-85, 89).
RoleInfoCall(ok) ==
    /\ dpc = "role_info"
    /\ role # <<>>
    /\ effects' = Append(effects, Effect("role.info", <<>>, ok))
    /\ readGuards' = ReleaseRead(readGuards)
    /\ Return(IF ok THEN Ok ELSE QuestionMark("role.info"))
    /\ UNCHANGED <<cmd, input, ret, reply, wgCount, writeGuard, autoCopy,
                   lastMessage, clipOk, clipText, xpc, xret>>
    /\ UNCHANGED <<relayVars, abort>>
    /\ UNCHANGED <<role, session, model, initRet>>

\* bail!("No role") (handler.rs 86-88).
\* Variant: an if let without the else branch.
NoRoleFallsThrough == Ok
NoRole == Err("No role")

RoleInfoBail ==
    /\ dpc = "role_info"
    /\ role = <<>>
    /\ readGuards' = ReleaseRead(readGuards)
    /\ Return(NoRole)
    /\ UNCHANGED <<cmd, input, ret, reply, wgCount, writeGuard, autoCopy,
                   lastMessage, clipOk, clipText, xpc, xret, effects>>
    /\ UNCHANGED <<relayVars, abort>>
    /\ UNCHANGED <<role, session, model, initRet>>

\* ExitRole: self.config.write() (handler.rs 91).
ExitRoleLock ==
    /\ dpc = "exit_role_lock"
    /\ CanWrite
    /\ writeGuard' = TRUE
    /\ dpc' = "clear_role"
    /\ UNCHANGED <<cmd, input, stack, sub, result, ret, reply, wgCount,
                   readGuards, autoCopy, lastMessage, clipOk, clipText, xpc,
                   xret, effects>>
    /\ UNCHANGED <<relayVars, abort>>
    /\ UNCHANGED <<role, session, model, initRet>>

\* clear_role()? and the drop of the guard (handler.rs 91-92).
ClearRole(ok) ==
    /\ dpc = "clear_role"
    /\ effects' = Append(effects, Effect("clear_role", <<cmd.arg>>, ok))
    /\ writeGuard' = ReleaseWrite
    /\ role' = IF ok THEN <<>> ELSE role
    /\ Return(IF ok THEN Ok ELSE QuestionMark("clear_role"))
    /\ UNCHANGED <<cmd, input, ret, reply, wgCount, readGuards, autoCopy,
                   lastMessage, clipOk, clipText, xpc, xret>>
    /\ UNCHANGED <<relayVars, abort>>
    /\ UNCHANGED <<session, model, initRet>>

\* StartSession: self.config.write() (handler.rs 95).
StartSessionLock ==
    /\ dpc = "start_session_lock"
    /\ CanWrite
    /\ writeGuard' = TRUE
    /\ dpc' = "start_session"
    /\ UNCHANGED <<cmd, input, stack, sub, result, ret, reply, wgCount,
                   readGuards, autoCopy, lastMessage, clipOk, clipText, xpc,
                   xret, effects>>
    /\ UNCHANGED <<relayVars, abort>>
    /\ UNCHANGED <<role, session, model, initRet>>

\* start_session(&name)? and the drop of the guard (handler.rs 95-96).
StartSessionCall(ok) ==
    /\ dpc = "start_session"
    /\ effects' = Append(effects, Effect("start_session", <<cmd.arg>>, ok))
    /\ writeGuard' = ReleaseWrite
    /\ session' = IF ok THEN <<cmd.arg>> ELSE session
    /\ Return(IF ok THEN Ok ELSE QuestionMark("start_session"))
    /\ UNCHANGED <<cmd, input, ret, reply, wgCount, readGuards, autoCopy,
                   lastMessage, clipOk, clipText, xpc, xret>>
    /\ UNCHANGED <<relayVars, abort>>
    /\ UNCHANGED <<role, model, initRet>>

\* SessionInfo: self.config.read() in the scrutinee of the if let
\* (handler.rs 99); the guard lives to the end of the if let.
SessionInfoLock ==
    /\ dpc = "session_info_lock"
    /\ CanRead
    /\ readGuards' = readGuards + 1
    /\ dpc' = "session_info"
    /\ UNCHANGED <<cmd, input, stack, sub, result, ret, reply, wgCount,
                   writeGuard, autoCopy, lastMessage, clipOk, clipText, xpc,
                   xret, effects>>
    /\ UNCHANGED <<relayVars, abort>>
    /\ UNCHANGED <<role, session, model, initRet>>

\* bail!("No session") (handler.rs 103-105).
NoSession == Err("No session")

SessionInfoBail ==
    /\ dpc = "session_info"
    /\ session = <<>>
    /\ readGuards' = ReleaseRead(readGuards)
    /\ Return(NoSession)
    /\ UNCHANGED <<cmd, input, ret, reply, wgCount, writeGuard, autoCopy,
                   lastMessage, clipOk, clipText, xpc, xret, effects>>
    /\ UNCHANGED <<relayVars, abort>>
    /\ UNCHANGED <<role, session, model, initRet>>

\* The second self.config.read(), inside the if let (handler.rs 100): the
\* guard of line 99 is still held.
RenderOptionsLock ==
    /\ dpc = "session_info"
    /\ session # <<>>
    /\ CanRead
    /\ readGuards' = readGuards + 1
    /\ dpc' = "get_render_options"
    /\ UNCHANGED <<cmd, input, stack, sub, result, ret, reply, wgCount,
                   writeGuard, autoCopy, lastMessage, clipOk, clipText, xpc,
                   xret, effects>>
    /\ UNCHANGED <<relayVars, abort>>
    /\ UNCHANGED <<role, session, model, initRet>>

\* get_render_options()? (handler.rs 100): the inner guard is dropped at
\* the end of the let; an error return drops the outer guard too.
GetRenderOptions(ok) ==
    /\ dpc = "get_render_options"
    /\ effects' = Append(effects, Effect("get_render_options", <<>>, ok))
    /\ IF ok
       THEN /\ readGuards' = ReleaseRead(readGuards)
            /\ dpc' = "markdown_init"
            /\ UNCHANGED <<stack, sub, result>>
       ELSE /\ readGuards' = ReleaseRead(ReleaseRead(readGuards))
            /\ Return(QuestionMark("get_render_options"))
    /\ UNCHANGED <<cmd, input, ret, reply, wgCount, writeGuard, autoCopy,
                   lastMessage, clipOk, clipText, xpc, xret>>
    /\ UNCHANGED <<relayVars, abort>>
    /\ UNCHANGED <<role, session, model, initRet>>

\* MarkdownRender::init(render_options)? (handler.rs 101).
MarkdownInit(ok) ==
    /\ dpc = "markdown_init"
    /\ effects' = Append(effects, Effect("markdown_init", <<>>, ok))
    /\ IF ok
       THEN /\ dpc' = "session_render"
            /\ UNCHANGED <<stack, sub, result, readGuards>>
       ELSE /\ readGuards' = ReleaseRead(readGuards)
            /\ Return(QuestionMark("markdown_init"))
    /\ UNCHANGED <<cmd, input, ret, reply, wgCount, writeGuard, autoCopy,
                   lastMessage, clipOk, clipText, xpc, xret>>
    /\ UNCHANGED <<relayVars, abort>>
    /\ UNCHANGED <<role, session, model, initRet>>

\* session.render(&mut markdown_render)? and the end of the if let
\* (handler.rs 102, 106).
SessionRender(ok) ==
    /\ dpc = "session_render"
    /\ effects' = Append(effects, Effect("session.render", <<>>, ok))
    /\ readGuards' = ReleaseRead(readGuards)
    /\ Return(IF ok THEN Ok ELSE QuestionMark("session.render"))
    /\ UNCHANGED <<cmd, input, ret, reply, wgCount, writeGuard, autoCopy,
                   lastMessage, clipOk, clipText, xpc, xret>>
    /\ UNCHANGED <<relayVars, abort>>
    /\ UNCHANGED <<role, session, model, initRet>>

\* ExitSession: self.config.write() (handler.rs 108).
ExitSessionLock ==
    /\ dpc = "exit_session_lock"
    /\ CanWrite
    /\ writeGuard' = TRUE
    /\ dpc' = "end_session"
    /\ UNCHANGED <<cmd, input, stack, sub, result, ret, reply, wgCount,
                   readGuards, autoCopy, lastMessage, clipOk, clipText, xpc,
                   xret, effects>>
    /\ UNCHANGED <<relayVars, abort>>
    /\ UNCHANGED <<role, session, model, initRet>>

\* end_session()? and the drop of the guard (handler.rs 108-109).
EndSession(ok) ==
    /\ dpc = "end_session"
    /\ effects' = Append(effects, Effect("end_session", <<cmd.arg>>, ok))
    /\ writeGuard' = ReleaseWrite
    /\ session' = IF ok THEN <<>> ELSE session
    /\ Return(IF ok THEN Ok ELSE QuestionMark("end_session"))
    /\ UNCHANGED <<cmd, input, ret, reply, wgCount, readGuards, autoCopy,
                   lastMessage, clipOk, clipText, xpc, xret>>
    /\ UNCHANGED <<relayVars, abort>>
    /\ UNCHANGED <<role, model, initRet>>

RelayInit ==
    /\ NewRelay
    /\ abort \in BOOLEAN
    /\ NewDispatcher
    /\ autoCopy = FALSE
    /\ clipOk = TRUE

Init ==
    /\ NewRelay
    /\ abort \in BOOLEAN
    /\ NewDispatcher

HandleAny == \E c \in Commands : Handle(c)
InitClientAny == \E ok \in BOOLEAN : InitClient(ok)
ExchangeCompletesAny == \E r \in Replies : ExchangeCompletes(r)
ExchangeCancelledAny == \E r \in Replies : ExchangeCancelled(r)
SaveMessageAny == \E ok \in BOOLEAN : SaveMessage(ok)
AutoCopyAny == \E ok \in BOOLEAN : AutoCopy(ok)
CopyCopyAny == \E ok \in BOOLEAN : CopyCopy(ok)
OpenAny == \E ok \in BOOLEAN : Open(ok)
ReadToStringAny == \E ok \in BOOLEAN, c \in Inputs : ReadToString(ok, c)
InfoCallAny == \E ok \in BOOLEAN : InfoCall(ok)
SetModelCallAny == \E ok \in BOOLEAN : SetModelCall(ok)
SetRoleCallAny == \E ok \in BOOLEAN : SetRoleCall(ok)
RoleInfoCallAny == \E ok \in BOOLEAN : RoleInfoCall(ok)
ClearRoleAny == \E ok \in BOOLEAN : ClearRole(ok)
StartSessionCallAny == \E ok \in BOOLEAN : StartSessionCall(ok)
GetRenderOptionsAny == \E ok \in BOOLEAN : GetRenderOptions(ok)
MarkdownInitAny == \E ok \in BOOLEAN : MarkdownInit(ok)
SessionRenderAny == \E ok \in BOOLEAN : SessionRender(ok)
EndSessionAny == \E ok \in BOOLEAN : EndSession(ok)

Next ==
    \/ HandleAny
    \/ SubmitEmpty
    \/ SubmitReadLock
    \/ SubmitTokens
    \/ InitClientAny
    \/ RenderStreamCall
    \/ ExchangeCompletesAny
    \/ ExchangeFails
    \/ ExchangeCancelledAny
    \/ ReleaseBarrier
    \/ RenderStreamReturns
    \/ Wait
    \/ TakeRet
    \/ SaveLock
    \/ SaveMessageAny
    \/ AutoCopyLock
    \/ AutoCopyTest
    \/ AutoCopyAny
    \/ CopyLock
    \/ CopyRead
    \/ CopyCopyAny
    \/ SetLock
    \/ Update
    \/ OpenAny
    \/ ReadToStringAny
    \/ NestedRet
    \/ InfoLock
    \/ InfoCallAny
    \/ SetModelLock
    \/ SetModelCallAny
    \/ SetRoleLock
    \/ SetRoleCallAny
    \/ RoleInfoLock
    \/ RoleInfoCallAny
    \/ RoleInfoBail
    \/ ExitRoleLock
    \/ ClearRoleAny
    \/ StartSessionLock
    \/ StartSessionCallAny
    \/ SessionInfoLock
    \/ SessionInfoBail
    \/ RenderOptionsLock
    \/ GetRenderOptionsAny
    \/ MarkdownInitAny
    \/ SessionRenderAny
    \/ ExitSessionLock
    \/ EndSessionAny
    \/ SetAbort
    \/ ResetAbort

Spec == Init /\ [][Next]_vars

\* The dispatcher thread keeps running once inside handle, production ends
\* and the exchange then drops its handle of the WaitGroup; the REPL need
\* not issue another command and nobody need touch the abort signal.
DispatcherStep ==
    \/ SubmitEmpty \/ SubmitReadLock \/ SubmitTokens \/ InitClientAny
    \/ RenderStreamCall \/ RenderStreamReturns \/ Wait \/ TakeRet
    \/ SaveLock \/ SaveMessageAny \/ AutoCopyLock \/ AutoCopyTest
    \/ AutoCopyAny \/ CopyLock \/ CopyRead \/ CopyCopyAny \/ SetLock
    \/ Update \/ OpenAny \/ ReadToStringAny \/ NestedRet
    \/ InfoLock \/ InfoCallAny \/ SetModelLock \/ SetModelCallAny
    \/ SetRoleLock \/ SetRoleCallAny \/ RoleInfoLock \/ RoleInfoCallAny
    \/ RoleInfoBail \/ ExitRoleLock \/ ClearRoleAny \/ StartSessionLock
    \/ StartSessionCallAny \/ SessionInfoLock \/ SessionInfoBail
    \/ RenderOptionsLock \/ GetRenderOptionsAny \/ MarkdownInitAny
    \/ SessionRenderAny \/ ExitSessionLock \/ EndSessionAny
ExchangeStep ==
    \/ ExchangeCompletesAny \/ ExchangeFails \/ ExchangeCancelledAny
    \/ ReleaseBarrier

FairSpec == Spec /\ WF_vars(DispatcherStep) /\ WF_vars(ExchangeStep)

RelayText == \E f \in Fragments : Text(f)

RelayNext ==
    \/ RelayText
    \/ Done
    \/ SafeRet
    \/ GetBuffer
    \/ GetAbort
    \/ Recv
    \/ DropReceiver
    \/ SetAbort
    \/ ResetAbort

RelaySpec == RelayInit /\ [][RelayNext]_vars

\* ------------------------------------------------- properties of the relay
RECURSIVE Concat(_)
Concat(ss) == IF ss = <<>> THEN <<>> ELSE Head(ss) \o Concat(Tail(ss))

\* The i-th call is a text() call that the leading-double-newline rule
\* discards: its fragment is "\n\n" and no earlier text() call passed
\* anything but "" or "\n\n".
LeadingDoubleNewline(cs, i) ==
    /\ cs[i].op = "text"
    /\ cs[i].frag = DoubleNewline
    /\ \A j \in 1..(i - 1) :
          cs[j].op = "text" => cs[j].frag \in {<<>>, DoubleNewline}

\* The fragments of the text() calls that are not discarded, in call order.
RECURSIVE KeptFrom(_, _)
KeptFrom(cs, i) ==
    IF i > Len(cs) THEN <<>>
    ELSE (IF cs[i].op = "text" /\ ~LeadingDoubleNewline(cs, i)
          THEN <<cs[i].frag>> ELSE <<>>) \o KeptFrom(cs, i + 1)
KeptFragments(cs) == KeptFrom(cs, 1)

\* The event each call hands to the channel, in call order.
RECURSIVE EventsFrom(_, _)
EventsFrom(cs, i) ==
    IF i > Len(cs) THEN <<>>
    ELSE (IF cs[i].op = "done" THEN <<DoneEvent>>
          ELSE IF LeadingDoubleNewline(cs, i) THEN <<>>
          ELSE <<TextEvent(cs[i].frag)>>) \o EventsFrom(cs, i + 1)
CallEvents(cs) == EventsFrom(cs, 1)

RECURSIVE SentFrom(_, _)
SentFrom(as, i) ==
    IF i > Len(as) THEN <<>>
    ELSE (IF as[i].ret = "ok" THEN <<as[i].ev>> ELSE <<>>) \o SentFrom(as, i + 1)
\* The events whose send succeeded, in send order.
Delivered(as) == SentFrom(as, 1)

TextCall(f) == [op |-> "text", frag |-> f]
DoneCall == [op |-> "done", frag |-> <<>>]

\* C1: text("\n\n") on an empty buffer returns Ok, leaves the buffer empty
\* and performs no send; on a non-empty buffer it appends "\n\n" and
\* performs exactly one send, of Text("\n\n"), which reaches the channel
\* when the receiver is alive.
C1_DoubleNewline ==
    [][Text(DoubleNewline) =>
         IF buffer = <<>>
         THEN /\ buffer' = <<>>
              /\ chan' = chan
              /\ attempts' = attempts
              /\ lastRet' = "ok"
              /\ rpc' = "idle"
         ELSE /\ buffer' = buffer \o DoubleNewline
              /\ Len(attempts') = Len(attempts) + 1
              /\ attempts'[Len(attempts')].ev = TextEvent(DoubleNewline)
              /\ SubSeq(attempts', 1, Len(attempts)) = attempts
              /\ (rxAlive => chan' = Append(chan, TextEvent(DoubleNewline)))]_vars

\* A leading "\n\n" was discarded and a later "\n\n" was appended and
\* forwarded.
C1_Witness ==
    /\ calls = <<TextCall(DoubleNewline), TextCall(<<"a">>), TextCall(DoubleNewline)>>
    /\ buffer = <<"a", NL, NL>>
    /\ chan = <<TextEvent(<<"a">>), TextEvent(DoubleNewline)>>
    /\ rpc = "idle"

\* C2: the buffer, and what get_buffer() returns, is the concatenation in
\* call order of the fragments passed to text() that the
\* leading-double-newline rule did not discard, whatever the sends did;
\* done() calls do not count.
C2_BufferIsConcat ==
    /\ [](buffer = Concat(KeptFragments(calls)))
    /\ [][GetBuffer => gotBuffer' = Concat(KeptFragments(calls))]_vars

\* A discarded fragment, a done() and a fragment whose send failed with an
\* error returned, then get_buffer().
C2_Witness ==
    /\ calls = <<TextCall(DoubleNewline), DoneCall, TextCall(<<"a">>)>>
    /\ attempts[2].ret = "err"
    /\ lastRet = "err"
    /\ gotBuffer = <<"a">>

\* C3: a completed text()/done() call that performed a send returns the
\* error exactly when the send failed and the abort signal was unset when
\* safe_ret read it.
C3_Suppression ==
    (rpc = "idle" /\ sendRet # "none") =>
        lastRet = (IF sendRet = "ok" THEN "ok"
                   ELSE IF abortRead THEN "ok" ELSE "err")

\* A done() whose send failed under a set abort signal returned Ok.
C3_Witness ==
    /\ rpc = "idle"
    /\ lastOp = "done"
    /\ sendRet = "err"
    /\ abortRead
    /\ lastRet = "ok"

\* C4: in what the consumer has received, no Text event follows a Done
\* event.
C4_DoneIsTerminal ==
    \A i \in 1..Len(received) : \A j \in (i + 1)..Len(received) :
        ~(received[i].kind = "Done" /\ received[j].kind = "Text")

\* C5: the events received followed by those still in the channel are the
\* events whose send succeeded, each once, in the order the calls made
\* them.
C5_Fifo ==
    /\ received \o chan = Delivered(attempts)
    /\ [i \in 1..Len(attempts) |-> attempts[i].ev] = CallEvents(calls)

\* The consumer has received two different events in call order.
C5_Witness ==
    /\ received = <<TextEvent(<<"a">>), DoneEvent>>
    /\ calls = <<TextCall(<<"a">>), DoneCall, TextCall(<<NL>>)>>
    /\ chan = <<TextEvent(<<NL>>)>>

\* --------------------------------------------- properties of the dispatcher
Did(op) == \E i \in 1..Len(effects) : effects[i].op = op
Failed(op) == \E i \in 1..Len(effects) : effects[i].op = op /\ ~effects[i].ok
Succeeded(op) == \E i \in 1..Len(effects) : effects[i].op = op /\ effects[i].ok
Count(op) == Cardinality({i \in 1..Len(effects) : effects[i].op = op})
Before(op1, op2) ==
    \A i \in 1..Len(effects) :
        effects[i].op = op2 => \E j \in 1..(i - 1) : effects[j].op = op1

\* C6: handle(Submit("")) returns Ok(()) having performed no collaborator
\* operation: no token notification, client, exchange, wait, save or copy,
\* and no guard or WaitGroup handle is ever held.
C6_EmptySubmit ==
    cmd = Submit(<<>>) =>
        /\ effects = <<>>
        /\ dpc \in {"submit", "idle"}
        /\ (dpc = "idle" => result = Ok)
        /\ readGuards = 0 /\ ~writeGuard
        /\ wgCount = 0
        /\ xpc \notin {"running", "ended"}

\* Submit("") has returned Ok and the message stored earlier is still there.
C6_Witness ==
    /\ cmd = Submit(<<>>)
    /\ dpc = "idle"
    /\ result = Ok
    /\ lastMessage = <<<<(<<"q">>), (<<"a">>)>>>>

\* C7: a non-empty Submit that is waiting on the barrier gets past the
\* wait, and every non-empty Submit returns, whatever the abort signal does.
C7_NoDeadlock ==
    /\ (dpc = "wait") ~> (dpc = "ret")
    /\ (dpc = "submit" /\ ~is_empty(input)) ~> (dpc = "idle")

\* The wait has completed for an exchange that ended with the abort signal
\* set.
C7_Witness ==
    /\ dpc = "ret"
    /\ abort
    /\ xpc = "released"
    /\ Did("wait")

\* C8: from the call of render_stream until wg.wait() has returned, and
\* as long as the exchange holds the barrier, the dispatcher holds no guard
\* on the configuration; the write guard of save_message is taken after
\* the wait.
C8_NoGuardAcrossWait ==
    /\ (dpc \in {"init_client", "render_stream", "in_render_stream", "wait", "ret"}
          => readGuards = 0 /\ ~writeGuard)
    /\ (xpc \in {"running", "ended"} => readGuards = 0 /\ ~writeGuard)
    /\ (dpc = "save_message" =>
          writeGuard /\ Did("wait") /\ Before("maybe_print_send_tokens", "wait"))

\* The dispatcher is blocked in wg.wait(): the exchange still holds its
\* handle.
C8_Witness ==
    /\ dpc = "wait"
    /\ xpc = "ended"
    /\ wgCount = 2
    /\ Did("maybe_print_send_tokens")

\* C9: save_message is called at most once per handle call, after the
\* wait, when render_stream returned Ok, with (input, the reply returned);
\* a failed init_client or exchange means no save and no copy; a failed
\* save_message is what handle returns, with no copy.
C9_SaveMessage ==
    /\ Count("save_message") <= 1
    /\ Before("wait", "save_message")
    /\ \A i \in 1..Len(effects) :
          effects[i].op = "save_message" =>
              ret.st = "ok" /\ effects[i].arg = <<input, ret.val>>
    /\ (Succeeded("save_message") => lastMessage = <<<<input, ret.val>>>>)
    /\ ((Failed("init_client") \/ (Did("wait") /\ ret.st = "err" /\ dpc # "ret"))
          => ~Did("save_message") /\ ~Did("copy"))
    /\ (Failed("save_message") =>
          /\ ~Did("copy")
          /\ dpc \in {"idle", "nested_ret"}
          /\ (dpc = "idle" => result = Err("save_message")))
    /\ (dpc = "idle" /\ Failed("init_client") => result = Err("init_client"))
    /\ (dpc = "idle" /\ Did("wait") /\ ret.st = "err"
          => result = Err("render_stream"))

\* A Submit whose save_message failed has returned.
C9_Witness ==
    /\ cmd = Submit(<<"q">>)
    /\ dpc = "idle"
    /\ Failed("save_message")
    /\ autoCopy

\* C10: a Submit that saved its message with auto_copy on attempts the
\* copy, and returns Ok with the message saved even when the copy fails;
\* a Copy command whose copy fails returns the error under the context
\* "Failed to copy the last output".
C10_CopyAsymmetry ==
    dpc = "idle" =>
        /\ (cmd.kind = "Submit" /\ Succeeded("save_message") /\ autoCopy
              => Did("copy"))
        /\ (cmd.kind = "Submit" /\ Failed("copy") =>
              /\ result = Ok
              /\ Succeeded("save_message")
              /\ lastMessage = <<<<input, reply>>>>)
        /\ (cmd.kind = "Copy" /\ Failed("copy") =>
              /\ result.st = "err"
              /\ result.ctx = "Failed to copy the last output")

\* A Submit has returned Ok although set_text failed on its auto-copy.
C10_Witness ==
    /\ dpc = "idle"
    /\ cmd.kind = "Submit"
    /\ Failed("set_text")
    /\ result = Ok

\* C11: init returns Ok whether or not the clipboard binding could be
\* constructed; a command that attempts no copy never returns the stored
\* failure; with a failed binding every copy attempt fails with the stored
\* failure, without a call of set_text, and Copy returns it.
C11_DeferredClipboardFailure ==
    /\ initRet = Ok
    /\ (dpc = "idle" /\ ~Did("copy") => result.cause # "clipboard")
    /\ (~clipOk =>
          /\ ~Did("set_text")
          /\ clipText = <<>>
          /\ \A i \in 1..Len(effects) : effects[i].op = "copy" => ~effects[i].ok
          /\ (dpc = "idle" /\ cmd.kind = "Copy" =>
                result.st = "err" /\ result.cause = "clipboard"))

\* With a failed binding, a Submit stored a message without an error and a
\* later Copy has returned the stored failure.
C11_Witness ==
    /\ ~clipOk
    /\ lastMessage # <<>>
    /\ cmd.kind = "Copy"
    /\ dpc = "idle"
    /\ result.cause = "clipboard"

\* C12: ReadFile makes the nested Submit call exactly when open and read
\* both succeeded, once, with the contents read; a failed open or read
\* returns its error under "Unable to open file" / "Unable to read file"
\* having done nothing else; the nested call's result is returned
\* unchanged; handle is never nested deeper than one level.
C12_ReadFile ==
    /\ Len(stack) <= 1
    /\ (stack # <<>> => cmd.kind = "ReadFile" /\ Did("handle_submit"))
    /\ (cmd.kind = "ReadFile" =>
          /\ Count("handle_submit") <= 1
          /\ (Did("handle_submit") <=>
                Succeeded("open") /\ Succeeded("read_to_string"))
          /\ (Failed("open") =>
                /\ dpc = "idle"
                /\ Len(effects) = 1
                /\ result = [Err("open") EXCEPT !.ctx = "Unable to open file"])
          /\ (Failed("read_to_string") =>
                /\ dpc = "idle"
                /\ Len(effects) = 2
                /\ result = [Err("read_to_string") EXCEPT
                               !.ctx = "Unable to read file"])
          /\ \A i \in 1..Len(effects) :
                effects[i].op = "handle_submit" =>
                    /\ effects[i].arg = <<input>>
                    /\ effects[i - 1].op = "read_to_string"
                    /\ effects[i - 1].arg = <<input>>
          /\ (dpc = "idle" /\ Did("handle_submit") =>
                sub.st # "none" /\ result = sub))

\* ReadFile has returned the error of the save_message of its nested
\* Submit.
C12_Witness ==
    /\ cmd.kind = "ReadFile"
    /\ dpc = "idle"
    /\ Did("handle_submit")
    /\ result = Err("save_message")
    /\ input = <<"q">>

\* The configuration as the commands see it.
Config == <<autoCopy, lastMessage, role, session, model>>

\* C13: RoleInfo without an active role returns the error "No role",
\* SessionInfo without an active session returns "No session", and no step
\* of either command changes the configuration.
C13_NoRoleNoSession ==
    /\ [](dpc = "idle" /\ cmd.kind = "RoleInfo" /\ role = <<>>
            => result = Err("No role"))
    /\ [](dpc = "idle" /\ cmd.kind = "SessionInfo" /\ session = <<>>
            => result = Err("No session"))
    /\ [][cmd'.kind \in {"RoleInfo", "SessionInfo"} => UNCHANGED Config]_vars

\* SessionInfo has returned "No session" on a configuration that has a
\* role and a stored message.
C13_Witness ==
    /\ dpc = "idle"
    /\ cmd.kind = "SessionInfo"
    /\ result = Err("No session")
    /\ role # <<>>
    /\ lastMessage # <<>>

\* The copy after a saved message, whose error line 68 discards.
AutoCopyEffect(i) ==
    /\ effects[i].op \in {"copy", "set_text"}
    /\ cmd.kind \in {"Submit", "ReadFile"}

\* A collaborator called by the command at hand has failed, the auto-copy
\* apart.
CollaboratorFailed ==
    \/ \E i \in 1..Len(effects) : ~effects[i].ok /\ ~AutoCopyEffect(i)
    \/ Did("wait") /\ ret.st = "err"

\* C14: a command during which a collaborator failed returns an error,
\* the one exception in handle being the clipboard failure of the
\* auto-copy after a Submit.  (The relay's exception, a failed send with
\* the abort signal set, is C3's.)
C14_NoSwallowedError ==
    /\ (dpc = "idle" /\ CollaboratorFailed => result.st = "err")
    /\ (dpc = "idle" /\ result.st = "ok" =>
          \A i \in 1..Len(effects) : ~effects[i].ok => AutoCopyEffect(i))

\* SessionInfo has returned the error of MarkdownRender::init.
C14_Witness ==
    /\ dpc = "idle"
    /\ cmd.kind = "SessionInfo"
    /\ Failed("markdown_init")
    /\ result = Err("markdown_init")

\* C15 as stated: every collaborator failure handle returns carries a
\* context string.
C15_AllWrapped ==
    dpc = "idle" /\ result.st = "err"
    /\ result.cause \notin {"No role", "No session"}
        => result.ctx # ""

\* The context handle attaches to a failure, by the failure's origin.
ContextOf(cause) ==
    CASE cause \in {"clipboard", "set_text"} -> "Failed to copy the last output"
      [] cause = "open" -> "Unable to open file"
      [] cause = "read_to_string" -> "Unable to read file"
      [] OTHER -> ""

\* C15, amended: handle attaches a context string to three failures only,
\* "Failed to copy the last output" to Copy's clipboard failure and
\* "Unable to open file" / "Unable to read file" to ReadFile's; every
\* other failure is returned as the collaborator gave it, and in each case
\* the underlying failure is kept.
C15_ContextWhereAttached ==
    dpc = "idle" /\ result.st = "err" =>
        /\ result.ctx = ContextOf(result.cause)
        /\ \/ result.cause \in {"No role", "No session"}
           \/ result.cause \in {"clipboard", "set_text"} /\ Failed("copy")
           \/ result.cause = "render_stream" /\ ret = Err("render_stream")
           \/ Failed(result.cause)

\* Copy has returned a wrapped set_text failure; SetModel's failure comes
\* back bare.
C15_Witness ==
    /\ dpc = "idle"
    /\ \/ cmd.kind = "Copy" /\ result.cause = "set_text"
          /\ result.ctx = "Failed to copy the last output"
       \/ cmd.kind = "SetModel" /\ result = Err("set_model")
    /\ lastMessage # <<>>

\* The reply of the stored message, empty when there is none.
StoredReply == IF lastMessage = <<>> THEN <<>> ELSE lastMessage[1][2]

\* C16: Copy hands the reply of the last stored message, or the empty
\* string, to the clipboard; it returns Ok exactly when the binding exists
\* and set_text succeeded; no step of it changes the configuration.
C16_Copy ==
    /\ [](cmd.kind = "Copy" =>
            /\ \A i \in 1..Len(effects) :
                 effects[i].op \in {"copy", "set_text"}
                     => effects[i].arg = <<StoredReply>>
            /\ (dpc = "idle" =>
                  /\ Did("copy")
                  /\ (result = Ok <=> clipOk /\ Succeeded("set_text"))
                  /\ (result = Ok => clipText = StoredReply)))
    /\ [][cmd'.kind = "Copy" => UNCHANGED Config]_vars

\* Copy has put the reply "a" of a stored message on the clipboard.
C16_Witness ==
    /\ dpc = "idle"
    /\ cmd.kind = "Copy"
    /\ result = Ok
    /\ lastMessage = <<<<<<"q">>, <<"a">>>>>>
    /\ clipText = <<"a">>

\* C17: when handle has returned, by any path, no guard on the
\* configuration is left, so the next command can take the lock either
\* way.
C17_GuardsReleased ==
    dpc \in {"idle", "nested_ret"} =>
        readGuards = 0 /\ ~writeGuard /\ CanRead /\ CanWrite

\* SessionInfo has returned the error of get_render_options, raised while
\* two read guards were held, and none is left.
C17_Witness ==
    /\ dpc = "idle"
    /\ cmd.kind = "SessionInfo"
    /\ result = Err("get_render_options")
    /\ readGuards = 0
    /\ ~writeGuard

\* C18 as stated: the dispatcher thread never holds a guard on the
\* configuration when it takes another.
C18_NoNestedAcquisition ==
    readGuards + (IF writeGuard THEN 1 ELSE 0) <= 1

\* The payloads of the Text events of a sequence of events, concatenated.
RECURSIVE TextOf(_)
TextOf(es) ==
    IF es = <<>> THEN <<>>
    ELSE (IF Head(es).kind = "Text" THEN Head(es).text ELSE <<>>)
             \o TextOf(Tail(es))

\* C19: the buffer is the concatenation of the fragments of all Text
\* sends attempted; the Text payloads that went through the channel,
\* concatenated in order, are the buffer without the fragments whose send
\* failed, hence the buffer itself when every send succeeded.
C19_SentTextVsBuffer ==
    /\ get_buffer = TextOf([i \in 1..Len(attempts) |-> attempts[i].ev])
    /\ TextOf(received \o chan) = TextOf(Delivered(attempts))
    /\ ((\A i \in 1..Len(attempts) : attempts[i].ret = "ok")
          => TextOf(received \o chan) = get_buffer)

\* Two fragments went through and a third was lost with the receiver: the
\* buffer has all three.
C19_Witness ==
    /\ rpc = "idle"
    /\ buffer = <<"a", NL, "a">>
    /\ TextOf(received \o chan) = <<"a", NL>>
    /\ attempts[3].ret = "err"

\* C20: text() and done() return an error only for a failed send with the
\* abort signal unset at the one read made after the send; what the signal
\* was at the send does not matter, so a signal set between a failing send
\* and the read suppresses the error.
C20_AbortReadAfterSend ==
    /\ [][SafeRet =>
            /\ (lastRet' = "err") <=> (sendRet = "err" /\ ~abort)
            /\ abortRead' = abort]_vars
    /\ [](lastRet = "err" => sendRet = "err" /\ ~abortRead)
    /\ [](rpc = "idle" /\ sendRet = "err" /\ abortRead => lastRet = "ok")

\* The send failed with the signal unset, the signal was set before the
\* read, and the call returned Ok.
C20_Witness ==
    /\ rpc = "idle"
    /\ sendRet = "err"
    /\ ~abortAtSend
    /\ abortRead
    /\ lastRet = "ok"

====
